---- MODULE Spec2Model ----
(***************************************************************************)
(* Mortgage & Eligibility Analyzer: the scenario financial model of        *)
(* mortgage_analyzer_app.py ("main"), mortgage_analyzer_app_enhanced.py    *)
(* ("enhanced") and mortgage_analyzer_app_basic.py ("basic").              *)
(*                                                                         *)
(* Number representation.  The scripts compute in binary floating point;   *)
(* the model computes in integers:                                         *)
(*   - money is carried in whole dollars, a quotient that is not a whole   *)
(*     number of dollars is floored;                                       *)
(*   - an annual rate in percent is carried in hundredths of a percent     *)
(*     (675 is 6.75%), a configured fraction (tax rate, fee rate, points)  *)
(*     in units of 1/10000 (175 is 0.0175);                                *)
(*   - a fraction that the code only compares with a literal (LTV, DTI,    *)
(*     down-payment fraction) is kept exact as a pair <<num, den>> and     *)
(*     compared by cross-multiplication;                                   *)
(*   - the growth factor (1+r)^n is carried in fixed point with One        *)
(*     standing for 1.0, one multiplication per period.                    *)
(***************************************************************************)
EXTENDS Integers, Sequences, FiniteSets, TLC

VARIABLES
    variant,                 \* which of the three scripts runs
    \* sidebar / main inputs (widget values of one script run)
    price, down_payment, hoa, occ,
    credit_score, gross_monthly_income, existing_monthly_debts,
    loan_term, rate_builder, rate_outside,
    va_eligible, va_first_use, recent_bk, recent_fc,
    inc_type, inc_amount, buydown_scheme_w,
    points_pct, apply_points_to_builder_rate,
    \* per-scenario widgets, keyed by the scenario slot
    scen_rate_w, scen_use_inc_w, scen_down_w,
    \* script state
    pc, buydown_scheme, adj_price, i, scenario_data,
    \* direct calls of the utility functions
    fn_call, fn_ret, fn_log

inputs == <<variant, price, down_payment, hoa, occ, credit_score,
            gross_monthly_income, existing_monthly_debts, loan_term,
            rate_outside, va_eligible, va_first_use, recent_bk, recent_fc,
            inc_type, inc_amount, buydown_scheme_w, points_pct,
            apply_points_to_builder_rate,
            scen_rate_w, scen_use_inc_w, scen_down_w>>

fnvars == <<fn_call, fn_ret, fn_log>>

vars == <<inputs, rate_builder, pc, buydown_scheme, adj_price, i,
          scenario_data, fnvars>>

---------------------------------------------------------------------------
(* Units *)

\* 1.0 of a configured fraction: "/ 100" of a percentage kept to 0.01%
PerUnit == 100 * 100

\* r = (rate_annual_pct/100.0)/12.0 with the rate in hundredths of a percent
RateDen == 100 * 100 * 12

\* fixed-point 1.0 of the growth factor (1 + r)**n
One == RateDen * 10

\* n_years is carried in hundredths of a year
YearUnit == 10 * 10

Max(a, b) == IF a >= b THEN a ELSE b

\* x = <<num, den>> stands for num/den, den # 0;  x > p/q and x < p/q for q > 0
RatGT(x, p, q) == IF x[2] > 0 THEN x[1] * q > p * x[2] ELSE x[1] * q < p * x[2]

RatLT(x, p, q) == IF x[2] > 0 THEN x[1] * q < p * x[2] ELSE x[1] * q > p * x[2]

RatLE(x, p, q) == ~RatGT(x, p, q)

\* a / b if b else 0.0
RatioOrZero(a, b) == IF b # 0 THEN <<a, b>> ELSE <<0, 1>>

---------------------------------------------------------------------------
(* Sidebar configuration, at the defaults of the widgets *)

closing_cost_pct == 300

tax_rate == 60

ins_rate == 35

pmi_rate == 60

fha_ufmip_pct == 175

fha_annual_mip == 55

min_credit_conv == 620

min_credit_fha == 580

min_credit_va == 580

max_dti_conv == 45

max_dti_fha == 50

max_dti_va == 55

\* Rate Reduction per 1.0 Point: 25 bps
rate_reduction_per_point == 25

---------------------------------------------------------------------------
(* Utility functions *)

\* (1 + r)**n, r = rate/RateDen, in fixed point
RECURSIVE Pow1p(_, _)
Pow1p(rate, n) ==
    IF n = 0 THEN One
    ELSE LET g == Pow1p(rate, n - 1) IN g + (g * rate) \div RateDen

\* n = int(n_years*12)
Periods(n_years) == (n_years * 12) \div YearUnit

\* mortgage_analyzer_app.py pmt
pmt(rate_annual_pct, n_years, principal) ==
    LET n == Periods(n_years)
    IN  IF n = 0 THEN 0
        ELSE IF rate_annual_pct = 0 THEN principal \div n
        ELSE LET g == Pow1p(rate_annual_pct, n)
             IN  (principal * ((rate_annual_pct * g) \div RateDen)) \div (g - One)

\* mortgage_analyzer_app_enhanced.py pmt
pmt_enhanced(rate_annual_pct, n_years, principal) ==
    LET n == Periods(n_years)
    IN  IF n = 0 THEN 0
        ELSE IF rate_annual_pct = 0 THEN principal \div n
        ELSE LET g == Pow1p(rate_annual_pct, n)
             IN  (principal * ((rate_annual_pct * g) \div RateDen)) \div (g - One)

\* mortgage_analyzer_app_basic.py pmt: the divisor (1 + r)**n - 1 is 0 and the
\* division raises ZeroDivisionError
pmt_basic_raises(rate_annual_pct, n_years) ==
    /\ rate_annual_pct # 0
    /\ Pow1p(rate_annual_pct, Periods(n_years)) - One = 0

\* mortgage_analyzer_app_basic.py pmt, where it returns
pmt_basic(rate_annual_pct, n_years, principal) ==
    LET n == Periods(n_years)
    IN  IF rate_annual_pct = 0
        THEN (IF n # 0 THEN principal \div n ELSE 0)
        ELSE LET g == Pow1p(rate_annual_pct, n)
             IN  (principal * ((rate_annual_pct * g) \div RateDen)) \div (g - One)

\* va_funding_fee_pct with the first-use 0.05 breakpoint compared with "<="
va_funding_fee_pct_le(down_frac, first_use) ==
    IF ~first_use
    THEN IF RatLT(down_frac, 5, 100) THEN 360
         ELSE IF RatLT(down_frac, 10, 100) THEN 175
         ELSE 150
    ELSE IF RatLE(down_frac, 5, 100) THEN 215
         ELSE IF RatLT(down_frac, 10, 100) THEN 150
         ELSE 125

\* mortgage_analyzer_app.py va_funding_fee_pct; down_frac is a pair
va_funding_fee_pct(down_frac, first_use) ==
    IF ~first_use
    THEN IF RatLT(down_frac, 5, 100) THEN 360
         ELSE IF RatLT(down_frac, 10, 100) THEN 175
         ELSE 150
    ELSE IF RatLT(down_frac, 5, 100) THEN 215
         ELSE IF RatLT(down_frac, 10, 100) THEN 150
         ELSE 125

\* mortgage_analyzer_app_enhanced.py va_funding_fee_pct
va_funding_fee_pct_enhanced(down_frac, first_use) ==
    IF ~first_use
    THEN IF RatLT(down_frac, 5, 100) THEN 360
         ELSE IF RatLT(down_frac, 10, 100) THEN 175
         ELSE 150
    ELSE IF RatLT(down_frac, 5, 100) THEN 215
         ELSE IF RatLT(down_frac, 10, 100) THEN 150
         ELSE 125

\* temp_buydown_yearly_rates
temp_buydown_yearly_rates(base_rate, scheme) ==
    IF scheme = "2-1" THEN <<base_rate - 200, base_rate - 100>>
    ELSE IF scheme = "3-2-1"
         THEN <<base_rate - 300, base_rate - 200, base_rate - 100>>
         ELSE <<>>

\* pv_months compounding each difference instead of discounting it
RECURSIVE pv_months_compound(_, _, _, _, _)
pv_months_compound(months, diff, base_rate_pct, m, pv) ==
    IF months = 0 THEN <<m, pv>>
    ELSE pv_months_compound(months - 1, diff, base_rate_pct, m + 1,
                            pv + (IF base_rate_pct > 0
                                  THEN (diff * Pow1p(base_rate_pct, m + 1)) \div One
                                  ELSE diff))

\* the inner loop of present_value_of_diffs: `months` months of `diff`,
\* from month counter m and accumulated pv; yields <<m, pv>>
RECURSIVE pv_months(_, _, _, _, _)
pv_months(months, diff, base_rate_pct, m, pv) ==
    IF months = 0 THEN <<m, pv>>
    ELSE pv_months(months - 1, diff, base_rate_pct, m + 1,
                   pv + (IF base_rate_pct > 0
                         THEN (diff * One) \div Pow1p(base_rate_pct, m + 1)
                         ELSE diff))

\* the outer loop of present_value_of_diffs over diffs[k..]
RECURSIVE pv_from(_, _, _, _, _)
pv_from(diffs, k, base_rate_pct, m, pv) ==
    IF k > Len(diffs) THEN pv
    ELSE LET s == pv_months(diffs[k][1], diffs[k][2], base_rate_pct, m, pv)
         IN  pv_from(diffs, k + 1, base_rate_pct, s[1], s[2])

\* present_value_of_diffs; diffs is a sequence of <<months, diff>>
present_value_of_diffs(diffs, base_rate_pct, term_years) ==
    pv_from(diffs, 1, base_rate_pct, 0, 0)

\* mortgage_analyzer_app_enhanced.py present_value_of_diffs
present_value_of_diffs_enhanced(diffs, base_rate_pct) ==
    pv_from(diffs, 1, base_rate_pct, 0, 0)

---------------------------------------------------------------------------
(* mortgage_analyzer_app.py: the scenario loop *)

\* default_scenarios: the lender whose rate is the Note Rate widget's default
default_scenarios ==
    <<[rate |-> "builder", use_incentive |-> TRUE],
      [rate |-> "outside", use_incentive |-> FALSE],
      [rate |-> "builder", use_incentive |-> TRUE]>>

\* st.number_input("Note Rate (%)", value=float(base["rate"]), ...)
scen_rate_of(scenarios, k) ==
    IF scen_rate_w[k].edited THEN scen_rate_w[k].value
    ELSE IF scenarios[k].rate = "builder" THEN rate_builder ELSE rate_outside

\* st.number_input("Down Payment ($)", value=down_payment, min_value=0, ...)
scen_down_of(k) ==
    IF scen_down_w[k].edited THEN scen_down_w[k].value ELSE down_payment

\* scen_price with the price reduction applied whatever the scenario selects
scen_price_of_always(scen_use_inc) ==
    IF inc_type = "PriceReduction" THEN adj_price ELSE price

scen_price_of(scen_use_inc) ==
    IF inc_type = "PriceReduction" /\ scen_use_inc = "Yes" THEN adj_price ELSE price

closing_credit_of(scen_use_inc) ==
    IF inc_type = "ClosingCredit" /\ scen_use_inc = "Yes" THEN inc_amount ELSE 0

\* prog_hint hinting VA for the borrower not flagged as VA-eligible
prog_hint_of_va_unflagged(va, cs) ==
    IF va = "No" THEN "VA"
    ELSE IF cs < min_credit_conv THEN "FHA" ELSE "Conventional"

\* prog_hint with the credit score compared with "<="
prog_hint_of_le(va, cs) ==
    IF va = "Yes" THEN "VA"
    ELSE IF cs <= min_credit_conv THEN "FHA" ELSE "Conventional"

prog_hint_of(va, cs) ==
    IF va = "Yes" THEN "VA"
    ELSE IF cs < min_credit_conv THEN "FHA" ELSE "Conventional"

\* Finance FHA UFMIP or VA funding fee: upfront_costs_financed
upfront_costs_financed_of(prog_hint, base_loan, scen_down, scen_price) ==
    IF prog_hint = "FHA" THEN (base_loan * fha_ufmip_pct) \div PerUnit
    ELSE IF prog_hint = "VA"
    THEN LET down_frac == RatioOrZero(scen_down, scen_price)
             fee_pct == va_funding_fee_pct(down_frac, va_first_use = "Yes")
         IN  (base_loan * fee_pct) \div PerUnit
    ELSE 0

\* fhava_note: what was financed, the VA fee with its percentage
fhava_note_of(prog_hint, base_loan, scen_down, scen_price) ==
    IF prog_hint = "FHA"
    THEN [kind |-> "FHA UFMIP financed", fee_pct |-> 0,
          amount |-> (base_loan * fha_ufmip_pct) \div PerUnit]
    ELSE IF prog_hint = "VA"
    THEN LET down_frac == RatioOrZero(scen_down, scen_price)
             fee_pct == va_funding_fee_pct(down_frac, va_first_use = "Yes")
         IN  [kind |-> "VA Funding Fee", fee_pct |-> fee_pct,
              amount |-> (base_loan * fee_pct) \div PerUnit]
    ELSE [kind |-> "", fee_pct |-> 0, amount |-> 0]

ltv_of(loan_amount, scen_price) == RatioOrZero(loan_amount, scen_price)

pmi_mip_of(prog_hint, loan_amount, scen_price) ==
    IF prog_hint = "Conventional" /\ RatGT(ltv_of(loan_amount, scen_price), 80, 100)
    THEN (loan_amount * pmi_rate) \div (PerUnit * 12)
    ELSE IF prog_hint = "FHA"
    THEN (loan_amount * fha_annual_mip) \div (PerUnit * 12)
    ELSE 0

\* the guard of the buydown valuation
buydown_guard(k, scen_use_inc) ==
    /\ inc_type = "RateBuydown" /\ scen_use_inc = "Yes" /\ k = 1
    /\ buydown_scheme \in {"2-1", "3-2-1"}

\* yr_rates with the stepped years in the opposite order
yr_rates_of_swapped(scen_rate) ==
    IF buydown_scheme = "2-1" THEN <<scen_rate - 100, scen_rate - 200>>
    ELSE IF buydown_scheme = "3-2-1"
         THEN <<scen_rate - 100, scen_rate - 200, scen_rate - 300>>
         ELSE <<>>

yr_rates_of(scen_rate) ==
    IF buydown_scheme = "2-1" THEN <<scen_rate - 200, scen_rate - 100>>
    ELSE IF buydown_scheme = "3-2-1"
         THEN <<scen_rate - 300, scen_rate - 200, scen_rate - 100>>
         ELSE <<>>

\* buydown_details; {} is <<>>, the dict is a one-element sequence
buydown_details_of(k, scen_use_inc, scen_rate, loan_amount, monthly_pi) ==
    IF buydown_guard(k, scen_use_inc)
    THEN LET yr_rates == yr_rates_of(scen_rate)
             payments == [idx \in 1..Len(yr_rates) |->
                            <<idx, yr_rates[idx],
                              pmt(yr_rates[idx], loan_term * YearUnit, loan_amount)>>]
             diffs == [idx \in 1..Len(yr_rates) |->
                            <<12, monthly_pi - payments[idx][3]>>]
             RECURSIVE naive(_)
             naive(n) == IF n = 0 THEN 0 ELSE naive(n - 1) + 12 * diffs[n][2]
         IN  <<[scheme |-> buydown_scheme,
                yearly_payments |-> payments,
                pv_cost |-> present_value_of_diffs(diffs, scen_rate,
                                                   loan_term * YearUnit),
                sum_cost |-> naive(Len(diffs))]>>
    ELSE <<>>

\* dti with 1.0 for a zero income
dti_of_one(piti) ==
    IF gross_monthly_income # 0
    THEN <<existing_monthly_debts + piti, gross_monthly_income>>
    ELSE <<1, 1>>

dti_of(piti) ==
    RatioOrZero(existing_monthly_debts + piti, gross_monthly_income)

\* conv_ok with the credit score tested against the FHA minimum
conv_ok_of_fha_minimum(dti) ==
    /\ credit_score >= min_credit_fha
    /\ RatLE(dti, max_dti_conv, 100)
    /\ recent_bk = "No"
    /\ recent_fc = "No"

\* conv_ok with the DTI compared with "<"
conv_ok_of_strict(dti) ==
    /\ credit_score >= min_credit_conv
    /\ RatLT(dti, max_dti_conv, 100)
    /\ recent_bk = "No"
    /\ recent_fc = "No"

conv_ok_of(dti) ==
    /\ credit_score >= min_credit_conv
    /\ RatLE(dti, max_dti_conv, 100)
    /\ recent_bk = "No"
    /\ recent_fc = "No"

fha_ok_of(dti) ==
    /\ credit_score >= min_credit_fha
    /\ RatLE(dti, max_dti_fha, 100)

va_ok_of(dti) ==
    /\ va_eligible = "Yes"
    /\ credit_score >= min_credit_va
    /\ RatLE(dti, max_dti_va, 100)
    /\ occ = "Primary"

W_OCC == "Government programs generally require primary occupancy."

W_LTV_CONV == "High LTV Conventional may require special programs or pricing."

W_LTV_FHA == "FHA max LTV/loan limits may apply."

W_VA == "VA selected but borrower not flagged as VA-eligible."

W_BUYDOWN == "Incentive may be insufficient to fully fund the temporary buydown."

est_closing_costs_of(scen_price, base_loan) ==
    (scen_price * closing_cost_pct + points_pct * base_loan) \div PerUnit

\* cash_to_close with the whole closing credit taken off
cash_to_close_of_refund(scen_down, est_closing_costs, closing_credit) ==
    scen_down + est_closing_costs - closing_credit

cash_to_close_of(scen_down, est_closing_costs, closing_credit) ==
    scen_down + Max(0, est_closing_costs - closing_credit)

\* [msg] if cond else []
Msg(cond, msg) == IF cond THEN <<msg>> ELSE <<>>

\* warning_msgs with the occupancy warning given under every program
warning_msgs_of_any_program(prog_hint, ltv, scen_use_inc, buydown_details) ==
    Msg(occ # "Primary", W_OCC)
    \o Msg(prog_hint = "Conventional" /\ RatGT(ltv, 95, 100), W_LTV_CONV)
    \o Msg(prog_hint = "FHA" /\ RatGT(ltv, 965, 1000), W_LTV_FHA)
    \o Msg(prog_hint = "VA" /\ va_eligible = "No", W_VA)
    \o Msg(/\ inc_type = "RateBuydown" /\ scen_use_inc = "Yes"
           /\ buydown_details # <<>>
           /\ inc_amount < buydown_details[1].pv_cost, W_BUYDOWN)

warning_msgs_of(prog_hint, ltv, scen_use_inc, buydown_details) ==
    Msg(occ # "Primary" /\ prog_hint \in {"FHA", "VA", "USDA"}, W_OCC)
    \o Msg(prog_hint = "Conventional" /\ RatGT(ltv, 95, 100), W_LTV_CONV)
    \o Msg(prog_hint = "FHA" /\ RatGT(ltv, 965, 1000), W_LTV_FHA)
    \o Msg(prog_hint = "VA" /\ va_eligible = "No", W_VA)
    \o Msg(/\ inc_type = "RateBuydown" /\ scen_use_inc = "Yes"
           /\ buydown_details # <<>>
           /\ inc_amount < buydown_details[1].pv_cost, W_BUYDOWN)

\* the body of the loop for scenario k: the dict appended to scenario_data
scenario_row(k) ==
    LET scen_rate == scen_rate_of(default_scenarios, k)
        scen_use_inc == scen_use_inc_w[k]
        scen_down == scen_down_of(k)
        scen_price == scen_price_of(scen_use_inc)
        closing_credit == closing_credit_of(scen_use_inc)
        base_loan == Max(0, scen_price - scen_down)
        prog_hint == prog_hint_of(va_eligible, credit_score)
        upfront_costs_financed ==
            upfront_costs_financed_of(prog_hint, base_loan, scen_down, scen_price)
        loan_amount == base_loan + upfront_costs_financed
        monthly_tax == (scen_price * tax_rate) \div (PerUnit * 12)
        monthly_ins == (scen_price * ins_rate) \div (PerUnit * 12)
        ltv == ltv_of(loan_amount, scen_price)
        pmi_mip == pmi_mip_of(prog_hint, loan_amount, scen_price)
        monthly_pi == pmt(scen_rate, loan_term * YearUnit, loan_amount)
        buydown_details ==
            buydown_details_of(k, scen_use_inc, scen_rate, loan_amount, monthly_pi)
        piti == monthly_pi + monthly_tax + monthly_ins + pmi_mip + hoa
        dti == dti_of(piti)
        est_closing_costs == est_closing_costs_of(scen_price, base_loan)
        cash_to_close ==
            cash_to_close_of(scen_down, est_closing_costs, closing_credit)
    IN  [name |-> k,
         price |-> scen_price,
         note_rate |-> scen_rate,
         down |-> scen_down,
         loan_amount |-> loan_amount,
         base_loan |-> base_loan,
         financed_upfront |-> upfront_costs_financed,
         monthly_pi |-> monthly_pi,
         monthly_tax |-> monthly_tax,
         monthly_ins |-> monthly_ins,
         hoa |-> hoa,
         pmi_mip |-> pmi_mip,
         piti |-> piti,
         dti |-> dti,
         closing_credit |-> closing_credit,
         est_closing_costs |-> est_closing_costs,
         cash_to_close |-> cash_to_close,
         program_hint |-> prog_hint,
         conv_ok |-> conv_ok_of(dti),
         fha_ok |-> fha_ok_of(dti),
         va_ok |-> va_ok_of(dti),
         fhava_note |-> fhava_note_of(prog_hint, base_loan, scen_down, scen_price),
         buydown_details |-> buydown_details,
         warnings |-> warning_msgs_of(prog_hint, ltv, scen_use_inc, buydown_details)]

\* lines 113-126: the buydown scheme, points applied to the builder rate, and
\* the adjusted price
main_setup ==
    /\ pc = "setup" /\ variant = "main"
    /\ buydown_scheme' = IF inc_type = "RateBuydown" THEN buydown_scheme_w
                         ELSE "Permanent"
    /\ rate_builder' =
         IF apply_points_to_builder_rate /\ points_pct > 0
         THEN Max(0, rate_builder - (rate_reduction_per_point * points_pct) \div 100)
         ELSE rate_builder
    /\ adj_price' = IF inc_type = "PriceReduction" THEN price - inc_amount ELSE price
    /\ i' = 1
    /\ pc' = "loop"
    /\ UNCHANGED <<inputs, scenario_data, fnvars>>

\* one pass of `for i, base in enumerate(default_scenarios, start=1)`
main_scenario ==
    /\ pc = "loop" /\ variant = "main"
    /\ i <= Len(default_scenarios)
    /\ scenario_data' = Append(scenario_data, scenario_row(i))
    /\ i' = i + 1
    /\ pc' = IF i = Len(default_scenarios) THEN "done" ELSE "loop"
    /\ UNCHANGED <<inputs, rate_builder, buydown_scheme, adj_price, fnvars>>

---------------------------------------------------------------------------
(* mortgage_analyzer_app_enhanced.py: the scenario loop *)

\* base_scenarios; force_type None is ""
base_scenarios ==
    <<[rate |-> "builder", use_incentive |-> TRUE, force_type |-> "PriceReduction"],
      [rate |-> "builder", use_incentive |-> TRUE, force_type |-> "ClosingCredit"],
      [rate |-> "builder", use_incentive |-> TRUE, force_type |-> "RateBuydown"],
      [rate |-> "outside", use_incentive |-> FALSE, force_type |-> ""]>>

eff_type_of(k) ==
    IF base_scenarios[k].force_type # "" THEN base_scenarios[k].force_type
    ELSE inc_type

prog_of(va, cs) ==
    IF va = "Yes" THEN "VA"
    ELSE IF cs < min_credit_conv THEN "FHA" ELSE "Conventional"

\* FHA/VA financed fees: financed
financed_of(prog, base_loan, dp, scen_price) ==
    IF prog = "FHA" THEN (base_loan * fha_ufmip_pct) \div PerUnit
    ELSE IF prog = "VA"
    THEN LET down_frac == RatioOrZero(dp, scen_price)
             fee_pct == va_funding_fee_pct_enhanced(down_frac, va_first_use = "Yes")
         IN  (base_loan * fee_pct) \div PerUnit
    ELSE 0

mi_of(prog, loan_amount, scen_price) ==
    IF prog = "Conventional" /\ RatGT(RatioOrZero(loan_amount, scen_price), 80, 100)
    THEN (loan_amount * pmi_rate) \div (PerUnit * 12)
    ELSE IF prog = "FHA"
    THEN (loan_amount * fha_annual_mip) \div (PerUnit * 12)
    ELSE 0

\* the guard of the temp buydown summary
enhanced_buydown_guard(eff_type, use_inc) ==
    /\ eff_type = "RateBuydown" /\ use_inc = "Yes"
    /\ buydown_scheme \in {"2-1", "3-2-1"}

\* buydown; None is <<>>, the dict is a one-element sequence
buydown_of(eff_type, use_inc, rate, loan_amount, monthly_pi) ==
    IF enhanced_buydown_guard(eff_type, use_inc)
    THEN LET yrs == IF buydown_scheme = "2-1"
                    THEN <<rate - 200, rate - 100>>
                    ELSE <<rate - 300, rate - 200, rate - 100>>
             yearly == [yr \in 1..Len(yrs) |->
                          <<yr, yrs[yr],
                            pmt_enhanced(yrs[yr], loan_term * YearUnit, loan_amount)>>]
             diffs == [yr \in 1..Len(yrs) |-> <<12, monthly_pi - yearly[yr][3]>>]
         IN  <<[scheme |-> buydown_scheme,
                yearly |-> yearly,
                pv_cost |-> present_value_of_diffs_enhanced(diffs, rate)]>>
    ELSE <<>>

\* the body of the loop for scenario k: the row and its details entry
enhanced_row(k) ==
    LET rate == scen_rate_of(base_scenarios, k)
        use_inc == scen_use_inc_w[k]
        dp == scen_down_of(k)
        eff_type == eff_type_of(k)
        scen_price == IF eff_type = "PriceReduction" /\ use_inc = "Yes"
                      THEN price - inc_amount ELSE price
        closing_credit == IF eff_type = "ClosingCredit" /\ use_inc = "Yes"
                          THEN inc_amount ELSE 0
        base_loan == Max(0, scen_price - dp)
        prog == prog_of(va_eligible, credit_score)
        financed == financed_of(prog, base_loan, dp, scen_price)
        loan_amount == base_loan + financed
        monthly_pi == pmt_enhanced(rate, loan_term * YearUnit, loan_amount)
        tax == (scen_price * tax_rate) \div (PerUnit * 12)
        ins == (scen_price * ins_rate) \div (PerUnit * 12)
        mi == mi_of(prog, loan_amount, scen_price)
        piti == monthly_pi + tax + ins + mi + hoa
        dti == RatioOrZero(existing_monthly_debts + piti, gross_monthly_income)
        est_cc == (scen_price * closing_cost_pct + points_pct * base_loan) \div PerUnit
        cash_to_close == dp + Max(0, est_cc - closing_credit)
    IN  [name |-> k,
         price |-> scen_price,
         note_rate |-> rate,
         down |-> dp,
         loan_amount |-> loan_amount,
         monthly_pi |-> monthly_pi,
         monthly_tax |-> tax,
         monthly_ins |-> ins,
         pmi_mip |-> mi,
         hoa |-> hoa,
         piti |-> piti,
         dti |-> dti,
         est_closing_costs |-> est_cc,
         closing_credit |-> closing_credit,
         cash_to_close |-> cash_to_close,
         program_hint |-> prog,
         financed |-> financed,
         buydown |-> buydown_of(eff_type, use_inc, rate, loan_amount, monthly_pi)]

\* lines 92-102
enhanced_setup ==
    /\ pc = "setup" /\ variant = "enhanced"
    /\ buydown_scheme' = IF inc_type = "RateBuydown" THEN buydown_scheme_w
                         ELSE "Permanent"
    /\ rate_builder' =
         IF apply_points_to_builder_rate /\ points_pct > 0
         THEN Max(0, rate_builder - (rate_reduction_per_point * points_pct) \div 100)
         ELSE rate_builder
    /\ adj_price' = IF inc_type = "PriceReduction" THEN price - inc_amount ELSE price
    /\ i' = 1
    /\ pc' = "loop"
    /\ UNCHANGED <<inputs, scenario_data, fnvars>>

\* one pass of `for i, s in enumerate(base_scenarios, start=1)`
enhanced_scenario ==
    /\ pc = "loop" /\ variant = "enhanced"
    /\ i <= Len(base_scenarios)
    /\ scenario_data' = Append(scenario_data, enhanced_row(i))
    /\ i' = i + 1
    /\ pc' = IF i = Len(base_scenarios) THEN "done" ELSE "loop"
    /\ UNCHANGED <<inputs, rate_builder, buydown_scheme, adj_price, fnvars>>

---------------------------------------------------------------------------
(* mortgage_analyzer_app_basic.py: the scenario loop *)

prog_hint_basic_of(va, cs) ==
    IF va = "Yes" THEN "VA"
    ELSE IF cs < min_credit_conv THEN "FHA" ELSE "Conventional"

\* Simple program hint and MI; the FHA rate is the literal 0.0055
pmi_mip_basic_of(prog_hint, loan_amount, scen_price) ==
    IF prog_hint = "Conventional" /\ RatGT(RatioOrZero(loan_amount, scen_price), 8, 10)
    THEN (loan_amount * pmi_rate) \div (PerUnit * 12)
    ELSE IF prog_hint = "FHA" THEN (loan_amount * 55) \div (PerUnit * 12)
    ELSE 0

\* the loan amount of a basic scenario
loan_amount_basic_of(scen_price, scen_down) == Max(0, scen_price - scen_down)

\* the body of the loop for scenario k, where pmt returns
basic_row(k) ==
    LET scen_rate == scen_rate_of(default_scenarios, k)
        scen_use_inc == scen_use_inc_w[k]
        scen_down == scen_down_of(k)
        scen_price == scen_price_of(scen_use_inc)
        closing_credit == closing_credit_of(scen_use_inc)
        loan_amount == loan_amount_basic_of(scen_price, scen_down)
        monthly_pi == pmt_basic(scen_rate, loan_term * YearUnit, loan_amount)
        monthly_tax == (scen_price * tax_rate) \div (PerUnit * 12)
        monthly_ins == (scen_price * ins_rate) \div (PerUnit * 12)
        prog_hint == prog_hint_basic_of(va_eligible, credit_score)
        pmi_mip == pmi_mip_basic_of(prog_hint, loan_amount, scen_price)
        piti == monthly_pi + monthly_tax + monthly_ins + hoa + pmi_mip
        dti == RatioOrZero(existing_monthly_debts + piti, gross_monthly_income)
        est_closing_costs == (scen_price * closing_cost_pct) \div PerUnit
        cash_to_close == scen_down + Max(0, est_closing_costs - closing_credit)
    IN  [name |-> k,
         price |-> scen_price,
         note_rate |-> scen_rate,
         down |-> scen_down,
         loan_amount |-> loan_amount,
         monthly_pi |-> monthly_pi,
         monthly_tax |-> monthly_tax,
         monthly_ins |-> monthly_ins,
         pmi_mip |-> pmi_mip,
         hoa |-> hoa,
         piti |-> piti,
         dti |-> dti,
         est_closing_costs |-> est_closing_costs,
         closing_credit |-> closing_credit,
         cash_to_close |-> cash_to_close,
         program_hint |-> prog_hint]

\* lines 60-63
basic_setup ==
    /\ pc = "setup" /\ variant = "basic"
    /\ adj_price' = IF inc_type = "PriceReduction" THEN price - inc_amount ELSE price
    /\ i' = 1
    /\ pc' = "loop"
    /\ UNCHANGED <<inputs, rate_builder, buydown_scheme, scenario_data, fnvars>>

\* one pass of `for i, base in enumerate(default_scenarios, start=1)`; a
\* ZeroDivisionError in pmt ends the script run
basic_scenario ==
    /\ pc = "loop" /\ variant = "basic"
    /\ i <= Len(default_scenarios)
    /\ IF pmt_basic_raises(scen_rate_of(default_scenarios, i), loan_term * YearUnit)
       THEN /\ pc' = "ZeroDivisionError"
            /\ UNCHANGED <<i, scenario_data>>
       ELSE /\ scenario_data' = Append(scenario_data, basic_row(i))
            /\ i' = i + 1
            /\ pc' = IF i = Len(default_scenarios) THEN "done" ELSE "loop"
    /\ UNCHANGED <<inputs, rate_builder, buydown_scheme, adj_price, fnvars>>

ScriptNext ==
    \/ main_setup
    \/ main_scenario
    \/ enhanced_setup
    \/ enhanced_scenario
    \/ basic_setup
    \/ basic_scenario

---------------------------------------------------------------------------
(* The utility functions called directly *)

call_pmt ==
    /\ fn_call.fn = "pmt" /\ fn_call.variant = "main" /\ fn_ret.state = "pending"
    /\ fn_ret' = [state |-> "returned",
                  value |-> pmt(fn_call.rate_annual_pct, fn_call.n_years,
                                fn_call.principal)]
    /\ UNCHANGED <<inputs, rate_builder, pc, buydown_scheme, adj_price, i,
                   scenario_data, fn_call, fn_log>>

call_pmt_enhanced ==
    /\ fn_call.fn = "pmt" /\ fn_call.variant = "enhanced" /\ fn_ret.state = "pending"
    /\ fn_ret' = [state |-> "returned",
                  value |-> pmt_enhanced(fn_call.rate_annual_pct, fn_call.n_years,
                                         fn_call.principal)]
    /\ UNCHANGED <<inputs, rate_builder, pc, buydown_scheme, adj_price, i,
                   scenario_data, fn_call, fn_log>>

call_pmt_basic ==
    /\ fn_call.fn = "pmt" /\ fn_call.variant = "basic" /\ fn_ret.state = "pending"
    /\ fn_ret' = IF pmt_basic_raises(fn_call.rate_annual_pct, fn_call.n_years)
                 THEN [state |-> "ZeroDivisionError", value |-> 0]
                 ELSE [state |-> "returned",
                       value |-> pmt_basic(fn_call.rate_annual_pct, fn_call.n_years,
                                           fn_call.principal)]
    /\ UNCHANGED <<inputs, rate_builder, pc, buydown_scheme, adj_price, i,
                   scenario_data, fn_call, fn_log>>

PmtNext == call_pmt \/ call_pmt_enhanced \/ call_pmt_basic

\* direct calls of va_funding_fee_pct in one run
MaxFeeCalls == 2

\* the calls of va_funding_fee_pct are logged with what they returned
call_va_funding_fee_pct(down_frac, first_use) ==
    /\ fn_call.fn = "va_funding_fee_pct" /\ Len(fn_log) < MaxFeeCalls
    /\ fn_log' = Append(fn_log,
                        [variant |-> "main", down_frac |-> down_frac,
                         first_use |-> first_use,
                         ret |-> va_funding_fee_pct(down_frac, first_use)])
    /\ UNCHANGED <<inputs, rate_builder, pc, buydown_scheme, adj_price, i,
                   scenario_data, fn_call, fn_ret>>

call_va_funding_fee_pct_enhanced(down_frac, first_use) ==
    /\ fn_call.fn = "va_funding_fee_pct" /\ Len(fn_log) < MaxFeeCalls
    /\ fn_log' = Append(fn_log,
                        [variant |-> "enhanced", down_frac |-> down_frac,
                         first_use |-> first_use,
                         ret |-> va_funding_fee_pct_enhanced(down_frac, first_use)])
    /\ UNCHANGED <<inputs, rate_builder, pc, buydown_scheme, adj_price, i,
                   scenario_data, fn_call, fn_ret>>

---------------------------------------------------------------------------
(* AmortizationEngine.buildSchedule, as the specification describes it; the   *)
(* scripts have no amortization loop.  Money is carried in cents here, so     *)
(* that a payment is rounded to the cent.                                     *)

\* the tolerance within which a balance counts as paid off: one dollar
Epsilon == 100

Min(a, b) == IF a <= b THEN a ELSE b

\* the principal portion paid although it exceeds the remaining balance
principal_portion_uncapped(basePayment, interest, extraPrincipalMonthly, balance) ==
    basePayment - interest + extraPrincipalMonthly

\* principal = basePayment - interest + extraPrincipal, capped so that it
\* never exceeds the remaining balance
principal_portion(basePayment, interest, extraPrincipalMonthly, balance) ==
    Min(basePayment - interest + extraPrincipalMonthly, balance)

\* one month of buildSchedule: fn_ret.value is the running balance, fn_log the
\* rows emitted so far; the loop ends once the balance is within Epsilon of
\* zero, and at the latest after termYears * 12 months
buildSchedule_month ==
    /\ fn_call.fn = "buildSchedule" /\ fn_ret.state = "running"
    /\ LET balance == fn_ret.value
           basePayment == pmt(fn_call.annualRatePct, fn_call.termYears * YearUnit,
                              fn_call.loanAmount)
           interest == (balance * fn_call.annualRatePct) \div RateDen
           principal == principal_portion(basePayment, interest,
                                          fn_call.extraPrincipalMonthly, balance)
           month == Len(fn_log) + 1
       IN  /\ fn_log' = Append(fn_log,
                               [month |-> month,
                                payment |-> interest + principal,
                                interest |-> interest,
                                principal |-> principal,
                                balance |-> balance - principal])
           /\ fn_ret' = [state |-> IF \/ balance - principal <= Epsilon
                                      \/ month = fn_call.termYears * 12
                                   THEN "returned" ELSE "running",
                         value |-> balance - principal]
    /\ UNCHANGED <<inputs, rate_builder, pc, buydown_scheme, adj_price, i,
                   scenario_data, fn_call>>

AmortNext == buildSchedule_month

---------------------------------------------------------------------------
(* Bounds and input sets *)

\* terms of a schedule, in whole years
MaxAmortYears == 2

\* terms of a direct pmt call, in whole years
MaxTermYears == 5

\* rates of the builder lender, in steps of 2%
MaxRateSteps == 3

\* down payments, in steps of 5% of the list price
MaxDownSteps == 4

\* existing monthly debts, in steps of $50
MaxDebtSteps == 2

\* down-payment fractions of a direct call, in whole percent
MaxDownPct == 11

Variants == {"main", "enhanced", "basic"}

YesNo == {"Yes", "No"}

Slots == 1..4

ListPrice == 120 * 1000

NotEdited == [edited |-> FALSE, value |-> 0]

ScenariosOf(v) == IF v = "enhanced" THEN base_scenarios ELSE default_scenarios

\* the "Use Builder Incentive?" widgets left at their defaults
UseIncDefault(v) ==
    [k \in Slots |-> IF k <= Len(ScenariosOf(v)) /\ ScenariosOf(v)[k].use_incentive
                     THEN "Yes" ELSE "No"]

\* a slot the script does not have keeps "No"
UseIncAll(v, yn) == [k \in Slots |-> IF k <= Len(ScenariosOf(v)) THEN yn ELSE "No"]

FnIdle ==
    /\ fn_call = [fn |-> "none"]
    /\ fn_ret = [state |-> "idle", value |-> 0]
    /\ fn_log = <<>>

\* the script before its first line
ScriptStart ==
    /\ pc = "setup"
    /\ buydown_scheme = "Permanent"
    /\ adj_price = 0
    /\ i = 0
    /\ scenario_data = <<>>
    /\ FnIdle

\* no script runs
ScriptIdle ==
    /\ variant = "main"
    /\ price = 0 /\ down_payment = 0 /\ hoa = 0 /\ occ = "Primary"
    /\ credit_score = 700 /\ gross_monthly_income = 0
    /\ existing_monthly_debts = 0
    /\ loan_term = 5 /\ rate_builder = 0 /\ rate_outside = 0
    /\ va_eligible = "No" /\ va_first_use = "Yes"
    /\ recent_bk = "No" /\ recent_fc = "No"
    /\ inc_type = "ClosingCredit" /\ inc_amount = 0
    /\ buydown_scheme_w = "Permanent"
    /\ points_pct = 0 /\ apply_points_to_builder_rate = FALSE
    /\ scen_rate_w = [k \in Slots |-> NotEdited]
    /\ scen_down_w = [k \in Slots |-> NotEdited]
    /\ scen_use_inc_w = [k \in Slots |-> "No"]
    /\ pc = "idle"
    /\ buydown_scheme = "Permanent"
    /\ adj_price = 0
    /\ i = 0
    /\ scenario_data = <<>>

\* direct calls of pmt
InitPmt ==
    /\ ScriptIdle
    /\ fn_call \in [fn : {"pmt"}, variant : Variants,
                    rate_annual_pct : {-200, 0, 1, 600, 675},
                    n_years : {y * YearUnit : y \in 0..MaxTermYears} \cup {4, 8, 9, 50},
                    principal : {0, 1200, ListPrice}]
    /\ fn_ret = [state |-> "pending", value |-> 0]
    /\ fn_log = <<>>

SpecPmt == InitPmt /\ [][PmtNext]_vars

\* down-payment fractions: whole percents, the neighbours of the breakpoints,
\* the 0.0 of a zero price and the negative quotient of a negative price
FeeFracs ==
    {<<n, 100>> : n \in 0..MaxDownPct}
    \cup {<<49, 1000>>, <<51, 1000>>, <<99, 1000>>, <<101, 1000>>, <<0, 1>>,
          <<30, -10>>}

InitFee ==
    /\ ScriptIdle
    /\ fn_call = [fn |-> "va_funding_fee_pct"]
    /\ fn_ret = [state |-> "idle", value |-> 0]
    /\ fn_log = <<>>

FeeNext ==
    \/ \E down_frac \in FeeFracs, first_use \in BOOLEAN :
          call_va_funding_fee_pct(down_frac, first_use)
    \/ \E down_frac \in FeeFracs, first_use \in BOOLEAN :
          call_va_funding_fee_pct_enhanced(down_frac, first_use)

SpecFee == InitFee /\ [][FeeNext]_vars

\* eligibility: the borrower varies, the loan is fixed
InitElig ==
    /\ variant \in Variants
    /\ price = ListPrice
    /\ down_payment \in {ListPrice \div 5, ListPrice}
    /\ hoa = 0
    /\ occ \in {"Primary", "Investment"}
    /\ credit_score \in {579, 580, 619, 620}
    /\ gross_monthly_income \in {0, 1000}
    /\ existing_monthly_debts \in
         {355 + 50 * k + e : k \in 0..MaxDebtSteps, e \in {0, 1}}
    /\ loan_term = 5 /\ rate_builder = 600 /\ rate_outside = 675
    /\ va_eligible \in YesNo
    /\ va_first_use = "Yes"
    /\ recent_bk \in YesNo /\ recent_fc \in YesNo
    /\ inc_type = "ClosingCredit" /\ inc_amount = 10000
    /\ buydown_scheme_w = "Permanent"
    /\ points_pct = 0 /\ apply_points_to_builder_rate = FALSE
    /\ scen_rate_w = [k \in Slots |-> NotEdited]
    /\ scen_down_w = [k \in Slots |-> NotEdited]
    /\ scen_use_inc_w = UseIncDefault(variant)
    /\ ScriptStart

SpecElig == InitElig /\ [][ScriptNext]_vars

\* loan sizing: price, down payment, program and incentive vary
InitLoan ==
    /\ variant \in Variants
    /\ price \in {0, ListPrice}
    /\ down_payment \in
         {(k * ListPrice) \div 20 : k \in 0..MaxDownSteps} \cup {4800, ListPrice}
    /\ hoa = 0
    /\ occ = "Primary"
    /\ credit_score \in {619, 620}
    /\ gross_monthly_income = 11000
    /\ existing_monthly_debts = 1200
    /\ loan_term = 5 /\ rate_builder = 600 /\ rate_outside = 675
    /\ va_eligible \in YesNo
    /\ va_first_use \in YesNo
    /\ recent_bk = "No" /\ recent_fc = "No"
    /\ inc_type \in {"ClosingCredit", "PriceReduction"}
    /\ inc_amount \in {0, 10000, ListPrice + 10000}
    /\ buydown_scheme_w = "Permanent"
    /\ points_pct = 0 /\ apply_points_to_builder_rate = FALSE
    /\ scen_rate_w = [k \in Slots |-> NotEdited]
    /\ scen_down_w \in
         {[k \in Slots |-> NotEdited],
          [k \in Slots |-> IF k = 1 THEN [edited |-> TRUE, value |-> 0]
                           ELSE NotEdited]}
    /\ scen_use_inc_w = UseIncDefault(variant)
    /\ ScriptStart

SpecLoan == InitLoan /\ [][ScriptNext]_vars

\* buydown: incentive, scheme, rate and the use of the incentive vary
InitBuydown ==
    /\ variant \in Variants
    /\ price = ListPrice
    /\ down_payment \in {0, 4800, ListPrice \div 5}
    /\ hoa = 0
    /\ occ \in {"Primary", "Investment"}
    /\ credit_score \in {619, 620}
    /\ gross_monthly_income = 11000
    /\ existing_monthly_debts = 1200
    /\ loan_term = 5
    /\ rate_builder \in {200 * k : k \in 0..MaxRateSteps}
    /\ rate_outside = 675
    /\ va_eligible \in YesNo
    /\ va_first_use = "Yes"
    /\ recent_bk = "No" /\ recent_fc = "No"
    /\ inc_type \in {"ClosingCredit", "PriceReduction", "RateBuydown"}
    /\ inc_amount \in {0, 3000, 10000}
    /\ buydown_scheme_w \in IF inc_type = "RateBuydown"
                            THEN {"Permanent", "2-1", "3-2-1"}
                            ELSE {"Permanent"}
    /\ points_pct = 0 /\ apply_points_to_builder_rate = FALSE
    /\ scen_rate_w = [k \in Slots |-> NotEdited]
    /\ scen_down_w = [k \in Slots |-> NotEdited]
    /\ scen_use_inc_w \in {UseIncDefault(variant), UseIncAll(variant, "Yes"),
                           UseIncAll(variant, "No")}
    /\ ScriptStart

SpecBuydown == InitBuydown /\ [][ScriptNext]_vars

\* degenerate inputs: income, price, down payment and incentive at zero or not
InitDegenerate ==
    /\ variant \in Variants
    /\ price \in {0, ListPrice}
    /\ down_payment \in {0, ListPrice \div 20}
    /\ hoa = 0
    /\ occ = "Primary"
    /\ credit_score \in {619, 620}
    /\ gross_monthly_income \in {0, 1000}
    /\ existing_monthly_debts \in {0, 400}
    /\ loan_term = 5 /\ rate_builder = 600 /\ rate_outside = 675
    /\ va_eligible \in YesNo
    /\ va_first_use \in YesNo
    /\ recent_bk = "No" /\ recent_fc = "No"
    /\ inc_type \in {"ClosingCredit", "PriceReduction"}
    /\ inc_amount \in {0, ListPrice}
    /\ buydown_scheme_w = "Permanent"
    /\ points_pct = 0 /\ apply_points_to_builder_rate = FALSE
    /\ scen_rate_w = [k \in Slots |-> NotEdited]
    /\ scen_down_w = [k \in Slots |-> NotEdited]
    /\ scen_use_inc_w = UseIncDefault(variant)
    /\ ScriptStart

\* the "Use Builder Incentive?" widgets of a script, each at Yes or No
UseIncAny(v) ==
    {u \in [Slots -> YesNo] : \A k \in Slots : k > Len(ScenariosOf(v)) => u[k] = "No"}

\* costs and incentives: points, incentive, its use per scenario and one
\* scenario's down payment vary; the basic script has no points widgets
InitCost ==
    /\ variant \in Variants
    /\ price = ListPrice
    /\ down_payment \in {0, ListPrice \div 5}
    /\ hoa = 0
    /\ occ = "Primary"
    /\ credit_score \in {619, 620}
    /\ gross_monthly_income = 11000
    /\ existing_monthly_debts = 1200
    /\ loan_term = 5 /\ rate_builder = 600 /\ rate_outside = 675
    /\ va_eligible \in YesNo
    /\ va_first_use = "Yes"
    /\ recent_bk = "No" /\ recent_fc = "No"
    /\ inc_type \in {"ClosingCredit", "PriceReduction", "RateBuydown"}
    /\ inc_amount \in {3000, 10000}
    /\ buydown_scheme_w = "Permanent"
    /\ points_pct \in IF variant = "basic" THEN {0} ELSE {0, 200}
    /\ apply_points_to_builder_rate \in
         IF variant = "basic" THEN {FALSE} ELSE BOOLEAN
    /\ scen_rate_w = [k \in Slots |-> NotEdited]
    /\ scen_down_w \in
         {[k \in Slots |-> NotEdited],
          [k \in Slots |-> IF k = 3 THEN [edited |-> TRUE, value |-> 6000]
                           ELSE NotEdited]}
    /\ scen_use_inc_w \in UseIncAny(variant)
    /\ ScriptStart

SpecCost == InitCost /\ [][ScriptNext]_vars

\* note rates: the Note Rate widget of one scenario is left alone or set
\* below zero (it has no min_value), with a low or usual builder rate
InitRate ==
    /\ variant \in Variants
    /\ price = ListPrice
    /\ down_payment = ListPrice \div 5
    /\ hoa = 0
    /\ occ = "Primary"
    /\ credit_score \in {619, 620}
    /\ gross_monthly_income = 11000
    /\ existing_monthly_debts = 1200
    /\ loan_term = 5
    /\ rate_builder \in {100, 600}
    /\ rate_outside = 675
    /\ va_eligible \in YesNo
    /\ va_first_use = "Yes"
    /\ recent_bk = "No" /\ recent_fc = "No"
    /\ inc_type = "RateBuydown"
    /\ inc_amount = 10000
    /\ buydown_scheme_w \in {"Permanent", "2-1", "3-2-1"}
    /\ points_pct = 0 /\ apply_points_to_builder_rate = FALSE
    /\ scen_rate_w \in
         {[k \in Slots |-> NotEdited]}
         \cup {[k \in Slots |-> IF k = e THEN [edited |-> TRUE, value |-> -100]
                                ELSE NotEdited] : e \in {1, 2}}
    /\ scen_down_w = [k \in Slots |-> NotEdited]
    /\ scen_use_inc_w = UseIncDefault(variant)
    /\ ScriptStart

SpecRate == InitRate /\ [][ScriptNext]_vars

\* a schedule to build: loan amount and extra principal in cents, rate >= 0,
\* term > 0
InitAmort ==
    /\ ScriptIdle
    /\ fn_call \in [fn : {"buildSchedule"},
                    loanAmount : {0, 120000, 250000},
                    annualRatePct : {0, 600},
                    termYears : 1..MaxAmortYears,
                    extraPrincipalMonthly : {0, 2000, 300000}]
    /\ fn_ret = [state |-> "running", value |-> fn_call.loanAmount]
    /\ fn_log = <<>>

SpecAmort == InitAmort /\ [][AmortNext]_vars

\* a script run on degenerate inputs, or a direct call of pmt
DegenerateNext == ScriptNext \/ PmtNext

SpecDegenerate == (InitDegenerate \/ InitPmt) /\ [][DegenerateNext]_vars

Init == InitElig \/ InitLoan \/ InitBuydown

Next == ScriptNext

Spec == Init /\ [][Next]_vars

---------------------------------------------------------------------------
(* Claims *)

Rows == {scenario_data[k] : k \in 1..Len(scenario_data)}

\* num/den > p/q, for q > 0 and any den # 0
QuotGT(num, den, p, q) ==
    \/ den > 0 /\ num * q > p * den
    \/ den < 0 /\ num * q < p * den

\* C1: in every scenario of the main script the three eligibility flags are
\* exactly the conjunctions: conv_ok = credit >= conventional minimum and
\* DTI <= conventional maximum and no bankruptcy and no foreclosure; fha_ok =
\* credit >= FHA minimum and DTI <= FHA maximum, whatever the derogatory
\* history; va_ok = VA-eligible and credit >= VA minimum and DTI <= VA
\* maximum and primary occupancy; all comparisons inclusive.
C1_EligibilityFlags ==
    variant = "main" =>
      \A r \in Rows :
        /\ r.dti[2] > 0
        /\ r.conv_ok <=> /\ credit_score >= min_credit_conv
                         /\ r.dti[1] * 100 <= max_dti_conv * r.dti[2]
                         /\ recent_bk = "No"
                         /\ recent_fc = "No"
        /\ r.fha_ok <=> /\ credit_score >= min_credit_fha
                        /\ r.dti[1] * 100 <= max_dti_fha * r.dti[2]
        /\ r.va_ok <=> /\ va_eligible = "Yes"
                       /\ credit_score >= min_credit_va
                       /\ r.dti[1] * 100 <= max_dti_va * r.dti[2]
                       /\ occ = "Primary"

\* a scenario that qualifies for all three programs with the credit score and
\* the DTI exactly at the conventional thresholds
C1_Witness ==
    /\ variant = "main"
    /\ credit_score = min_credit_conv
    /\ \E r \in Rows :
         /\ r.dti[1] > 0
         /\ r.dti[1] * 100 = max_dti_conv * r.dti[2]
         /\ r.conv_ok /\ r.fha_ok /\ r.va_ok

\* C2: the program tag is VA whenever the VA-eligible flag is set, whatever
\* the credit score, otherwise FHA when the credit score is strictly below the
\* conventional minimum, otherwise Conventional; it is the same in every
\* scenario of one run and takes no other value.
C2_ProgramTag ==
    \A r \in Rows :
      /\ r.program_hint \in {"VA", "FHA", "Conventional"}
      /\ va_eligible = "Yes" => r.program_hint = "VA"
      /\ va_eligible # "Yes" /\ credit_score < min_credit_conv
           => r.program_hint = "FHA"
      /\ va_eligible # "Yes" /\ credit_score >= min_credit_conv
           => r.program_hint = "Conventional"
      /\ \A q \in Rows : q.program_hint = r.program_hint

\* a finished run of a borrower one point below the conventional minimum who
\* is tagged FHA in every scenario
C2_Witness ==
    /\ pc = "done"
    /\ va_eligible = "No" /\ credit_score = min_credit_conv - 1
    /\ Len(scenario_data) >= 3
    /\ \A r \in Rows : r.program_hint = "FHA"

\* the financed upfront fee of the claim C3: FHA upfront rate, VA funding fee
\* by down-payment fraction (0 when the price is 0) and first use, else 0
C3_Fee(prog, base, down, scen_price, first) ==
    IF prog = "FHA" THEN (base * fha_ufmip_pct) \div PerUnit
    ELSE IF prog = "VA"
    THEN LET below5 == scen_price # 0 /\ ~QuotGT(down, scen_price, 5, 100)
                         /\ down * 100 # 5 * scen_price
             below10 == scen_price # 0 /\ ~QuotGT(down, scen_price, 10, 100)
                          /\ down * 100 # 10 * scen_price
             zero == scen_price = 0
             pct == IF first
                    THEN (IF zero \/ below5 THEN 215 ELSE IF below10 THEN 150 ELSE 125)
                    ELSE (IF zero \/ below5 THEN 360 ELSE IF below10 THEN 175 ELSE 150)
         IN  (base * pct) \div PerUnit
    ELSE 0

\* the claim C3 of one scenario row
C3_Row(r) ==
    LET base == Max(0, r.price - r.down)
        fee == C3_Fee(r.program_hint, base, r.down, r.price, va_first_use = "Yes")
    IN  /\ r.loan_amount = base + fee
        /\ r.loan_amount >= base
        /\ r.program_hint = "Conventional" => r.loan_amount = base

\* C3: in every scenario of every script the financed loan amount is the base
\* loan plus the financed upfront fee (FHA upfront rate for FHA, the VA
\* funding fee for VA, nothing for Conventional).
C3_FinancedLoanAmount == \A r \in Rows : C3_Row(r)

\* C3 in the scripts that finance the fee
C3_MainAndEnhanced == variant \in {"main", "enhanced"} => \A r \in Rows : C3_Row(r)

\* the claim C4 of one row whose loan amount is `loan`: PMI for a
\* Conventional scenario above an LTV of 0.80, MIP for an FHA scenario, none
\* for a VA scenario; LTV is loan / effective price, 0 when the price is 0
C4_Row(r, loan) ==
    LET high == QuotGT(loan, r.price, 80, 100)
    IN  /\ r.program_hint = "Conventional" /\ high
          => r.pmi_mip = (loan * pmi_rate) \div (12 * PerUnit)
        /\ r.program_hint = "Conventional" /\ ~high => r.pmi_mip = 0
        /\ r.program_hint = "FHA"
          => r.pmi_mip = (loan * fha_annual_mip) \div (12 * PerUnit)
        /\ r.program_hint = "VA" => r.pmi_mip = 0

\* the loan amount after the upfront fee has been financed
C4_Financed(r) ==
    Max(0, r.price - r.down)
      + C3_Fee(r.program_hint, Max(0, r.price - r.down), r.down, r.price,
               va_first_use = "Yes")

\* C4: a Conventional scenario carries PMI = loan amount x PMI rate / 12 only
\* when LTV > 0.80 strictly, an FHA scenario always carries MIP = loan amount x
\* annual MIP rate / 12, a VA scenario carries none, the loan amount and the
\* LTV being those after the upfront fee has been financed.
C4_MortgageInsurance == \A r \in Rows : C4_Row(r, C4_Financed(r))

\* C4 in the scripts that finance the fee
C4_MainAndEnhanced ==
    variant \in {"main", "enhanced"} => \A r \in Rows : C4_Row(r, C4_Financed(r))

\* C4 of every script on the loan amount the scenario reports
C4_OnReportedLoan == \A r \in Rows : C4_Row(r, r.loan_amount)

\* a run with a Conventional scenario at an LTV of exactly 0.80 without PMI and
\* one above 0.80 with PMI
C4_Boundary ==
    /\ \E r \in Rows :
         /\ r.program_hint = "Conventional" /\ r.price > 0
         /\ r.loan_amount * 100 = 80 * r.price
         /\ r.pmi_mip = 0
    /\ \E r \in Rows :
         /\ r.program_hint = "Conventional" /\ r.pmi_mip > 0

\* C5: in every variant of pmt, with n = int(n_years*12) = 0 the result is 0
\* for every rate and nothing is raised; with n > 0 and rate 0 the result is
\* principal / n.
C5_PmtDegenerate ==
    fn_call.fn = "pmt" /\ fn_ret.state # "pending" =>
      LET n == (fn_call.n_years * 12) \div YearUnit
      IN  /\ n = 0 => fn_ret.state = "returned" /\ fn_ret.value = 0
          /\ n > 0 /\ fn_call.rate_annual_pct = 0
               => /\ fn_ret.state = "returned"
                  /\ fn_ret.value * n <= fn_call.principal
                  /\ fn_call.principal < (fn_ret.value + 1) * n

\* C5 in the scripts whose pmt tests n == 0 first
C5_MainAndEnhanced == fn_call.fn = "pmt" /\ fn_call.variant # "basic" => C5_PmtDegenerate

\* the fee of the claim C6 for the fraction num/den
C6_Tier(x, first_use) ==
    LET lt5 == ~QuotGT(x[1], x[2], 5, 100) /\ x[1] * 100 # 5 * x[2]
        lt10 == ~QuotGT(x[1], x[2], 10, 100) /\ x[1] * 100 # 10 * x[2]
    IN  IF first_use THEN (IF lt5 THEN 215 ELSE IF lt10 THEN 150 ELSE 125)
        ELSE (IF lt5 THEN 360 ELSE IF lt10 THEN 175 ELSE 150)

\* x <= y for fractions x, y
FracLE(x, y) ==
    IF (x[2] > 0) = (y[2] > 0) THEN x[1] * y[2] <= y[1] * x[2]
    ELSE x[1] * y[2] >= y[1] * x[2]

\* C6: va_funding_fee_pct is a tiered lookup with breakpoints 0.05 and 0.10
\* compared with "<": first use 0.0215 / 0.015 / 0.0125, subsequent use
\* 0.036 / 0.0175 / 0.015; a fraction equal to a breakpoint is in the lower-fee
\* tier, below 0.05 a subsequent use costs more than a first use, and the fee
\* never increases with the down-payment fraction.
C6_VaFundingFee ==
    \A a \in 1..Len(fn_log) :
      LET c == fn_log[a]
      IN  /\ c.ret = C6_Tier(c.down_frac, c.first_use)
          /\ c.down_frac[1] * 100 = 5 * c.down_frac[2]
               => c.ret = IF c.first_use THEN 150 ELSE 175
          /\ c.down_frac[1] * 100 = 10 * c.down_frac[2]
               => c.ret = IF c.first_use THEN 125 ELSE 150
          /\ \A b \in 1..Len(fn_log) :
               LET d == fn_log[b]
               IN  /\ c.first_use = d.first_use /\ FracLE(c.down_frac, d.down_frac)
                        => d.ret <= c.ret
                   /\ c.down_frac = d.down_frac /\ ~c.first_use /\ d.first_use
                        /\ c.ret = 360
                        => d.ret < c.ret
                   /\ c.down_frac = d.down_frac /\ c.first_use = d.first_use
                        => c.ret = d.ret

\* a first-use call at exactly 0.05 that pays 0.015, after a call just below
\* the breakpoint that pays 0.0215
C6_Witness ==
    /\ Len(fn_log) = 2
    /\ fn_log[1].down_frac = <<49, 1000>> /\ fn_log[1].first_use /\ fn_log[1].ret = 215
    /\ fn_log[2].down_frac = <<5, 100>> /\ fn_log[2].first_use /\ fn_log[2].ret = 150

\* the schedule of a row: buydown_details of the main script, buydown of the
\* enhanced script, none in the basic script
ScheduleOf(r) ==
    IF variant = "main" THEN r.buydown_details
    ELSE IF variant = "enhanced" THEN r.buydown
    ELSE <<>>

\* the (year, rate, payment) entries of a schedule
EntriesOf(b) == IF variant = "main" THEN b.yearly_payments ELSE b.yearly

\* the undiscounted subsidy of a schedule: 12 months of (base payment -
\* stepped payment) for each stepped year
RECURSIVE SubsidySum(_, _, _)
SubsidySum(entries, base_pay, n) ==
    IF n = 0 THEN 0
    ELSE SubsidySum(entries, base_pay, n - 1) + 12 * (base_pay - entries[n][3])

\* the payment of `principal` at `rate` over the loan term, by the script's pmt
PmtOf(rate, principal) ==
    IF variant = "main" THEN pmt(rate, loan_term * YearUnit, principal)
    ELSE pmt_enhanced(rate, loan_term * YearUnit, principal)

\* C7: a 2-1 schedule has exactly two entries, year 1 at note rate - 2 and
\* year 2 at note rate - 1; a 3-2-1 schedule exactly three, at note rate - 3,
\* - 2, - 1; each entry is (1-based year, rate, payment of the financed loan
\* amount at that rate over the full term), in year order, each year counting
\* 12 months of (base payment - stepped payment); Permanent yields no schedule.
C7_ScheduleShape ==
    \A r \in Rows :
      LET s == ScheduleOf(r)
      IN  /\ buydown_scheme = "Permanent" => s = <<>>
          /\ s # <<>> =>
               LET e == EntriesOf(s[1])
                   steps == IF s[1].scheme = "2-1" THEN <<200, 100>>
                            ELSE <<300, 200, 100>>
               IN  /\ s[1].scheme = buydown_scheme
                   /\ s[1].scheme \in {"2-1", "3-2-1"}
                   /\ Len(e) = Len(steps)
                   /\ \A y \in 1..Len(e) :
                        /\ e[y][1] = y
                        /\ e[y][2] = r.note_rate - steps[y]
                        /\ e[y][3] = PmtOf(e[y][2], r.loan_amount)
                   /\ [y \in 1..Len(e) |-> e[y][2]]
                        = temp_buydown_yearly_rates(r.note_rate, s[1].scheme)
                   /\ variant = "main"
                        => s[1].sum_cost = SubsidySum(e, r.monthly_pi, Len(e))

\* a 3-2-1 schedule of a financed loan (the loan amount exceeds the base loan)
\* whose three payments step up, and whose first stepped rate is negative
C7_Witness ==
    \E r \in Rows :
      /\ variant = "main"
      /\ r.buydown_details # <<>>
      /\ r.buydown_details[1].scheme = "3-2-1"
      /\ Len(r.buydown_details[1].yearly_payments) = 3
      /\ r.loan_amount > r.base_loan
      /\ r.buydown_details[1].yearly_payments[1][2] < 0
      /\ r.buydown_details[1].yearly_payments[1][3]
           < r.buydown_details[1].yearly_payments[2][3]
      /\ r.buydown_details[1].yearly_payments[2][3]
           < r.buydown_details[1].yearly_payments[3][3]

\* the incentive in force for scenario k: the forced type of an enhanced
\* scenario that has one, else the selected incentive type
ActiveIncentive(k) ==
    IF variant = "enhanced" /\ base_scenarios[k].force_type # ""
    THEN base_scenarios[k].force_type
    ELSE inc_type

\* C8: every scenario, whatever its position, in which RateBuydown is the
\* active incentive, the scenario applies the incentive and the scheme is
\* temporary has a non-empty buydown schedule with its present value; a
\* scenario for which one of the three conditions fails has none.
C8_BuydownForEveryScenario ==
    variant \in {"main", "enhanced"} =>
      \A k \in 1..Len(scenario_data) :
        ScheduleOf(scenario_data[k]) # <<>>
          <=> /\ ActiveIncentive(k) = "RateBuydown"
              /\ scen_use_inc_w[k] = "Yes"
              /\ buydown_scheme \in {"2-1", "3-2-1"}

\* C8 in the enhanced script
C8_Enhanced == variant = "enhanced" => C8_BuydownForEveryScenario

\* C8 of the main script with the position of the scenario added
C8_MainFirstOnly ==
    variant = "main" =>
      \A k \in 1..Len(scenario_data) :
        ScheduleOf(scenario_data[k]) # <<>>
          <=> /\ inc_type = "RateBuydown"
              /\ scen_use_inc_w[k] = "Yes"
              /\ buydown_scheme \in {"2-1", "3-2-1"}
              /\ k = 1

\* C9: the present value of the subsidy of a schedule is at most the
\* undiscounted sum of the differences when the base rate is positive, and
\* equal to it when the base rate is zero.
C9_PresentValue ==
    \A r \in Rows :
      LET s == ScheduleOf(r)
      IN  s # <<>> =>
            LET e == EntriesOf(s[1])
                undiscounted == SubsidySum(e, r.monthly_pi, Len(e))
            IN  /\ r.note_rate > 0 => s[1].pv_cost <= undiscounted
                /\ r.note_rate = 0 => s[1].pv_cost = undiscounted

\* a run with a schedule at base rate zero whose present value is the whole
\* positive subsidy, and one at a positive base rate whose present value is
\* positive and strictly less than the subsidy
C9_Witness ==
    /\ \E r \in Rows :
         /\ ScheduleOf(r) # <<>>
         /\ r.note_rate = 0
         /\ ScheduleOf(r)[1].pv_cost > 0
         /\ ScheduleOf(r)[1].pv_cost
              = SubsidySum(EntriesOf(ScheduleOf(r)[1]), r.monthly_pi,
                           Len(EntriesOf(ScheduleOf(r)[1])))
    /\ \E r \in Rows :
         /\ ScheduleOf(r) # <<>>
         /\ r.note_rate > 0
         /\ ScheduleOf(r)[1].pv_cost > 0
         /\ ScheduleOf(r)[1].pv_cost
              < SubsidySum(EntriesOf(ScheduleOf(r)[1]), r.monthly_pi,
                           Len(EntriesOf(ScheduleOf(r)[1])))

\* the warnings of the claim C10 for a row of the main script, in order
C10_Expected(r) ==
    LET gov == r.program_hint \in {"FHA", "VA"}
        conv_high == r.program_hint = "Conventional"
                       /\ QuotGT(r.loan_amount, r.price, 95, 100)
        fha_high == r.program_hint = "FHA"
                      /\ QuotGT(r.loan_amount, r.price, 965, 1000)
        shortfall == r.buydown_details # <<>>
                       /\ inc_amount < r.buydown_details[1].pv_cost
    IN  (IF occ # "Primary" /\ gov THEN <<W_OCC>> ELSE <<>>)
        \o (IF conv_high THEN <<W_LTV_CONV>> ELSE <<>>)
        \o (IF fha_high THEN <<W_LTV_FHA>> ELSE <<>>)
        \o (IF r.program_hint = "VA" /\ va_eligible # "Yes" THEN <<W_VA>> ELSE <<>>)
        \o (IF shortfall THEN <<W_BUYDOWN>> ELSE <<>>)

\* the figures of a scenario result of the main script
C10_Figures ==
    {"price", "note_rate", "down", "loan_amount", "base_loan", "financed_upfront",
     "monthly_pi", "monthly_tax", "monthly_ins", "hoa", "pmi_mip", "piti", "dti",
     "closing_credit", "est_closing_costs", "cash_to_close", "program_hint",
     "conv_ok", "fha_ok", "va_ok", "buydown_details", "warnings"}

\* C10: no advisory condition aborts a scenario of the main script: the run
\* ends with a result for each scenario carrying all figures, and the warnings
\* of a result are, in this order, the occupancy warning iff occupancy is not
\* Primary under FHA or VA, the high-LTV warning iff Conventional with LTV >
\* 0.95 or FHA with LTV > 0.965, the VA warning iff the program is VA without
\* the VA-eligible flag, and the shortfall warning iff a temporary buydown was
\* valued and the incentive amount is strictly less than its present value.
C10_Warnings ==
    variant = "main" =>
      /\ pc \in {"setup", "loop", "done"}
      /\ pc = "done" => Len(scenario_data) = Len(default_scenarios)
      /\ pc = "loop" => Len(scenario_data) = i - 1
      /\ \A r \in Rows :
           /\ C10_Figures \subseteq DOMAIN r
           /\ r.warnings = C10_Expected(r)

\* a result that carries the occupancy, the high-LTV and the shortfall
\* warnings together, in a run that went on to its end
C10_Witness ==
    /\ variant = "main" /\ pc = "done"
    /\ scenario_data[1].warnings = <<W_OCC, W_LTV_FHA, W_BUYDOWN>>
    /\ scenario_data[1].monthly_pi > 0
    /\ Len(scenario_data) = 3

\* the tier of a down-payment fraction of 0
C11_ZeroFracTier == IF va_first_use = "Yes" THEN 215 ELSE 360

\* C11: degenerate inputs give sentinel values and no fault: the DTI is 0 when
\* the gross monthly income is 0 and (debts + PITI) / income otherwise; when
\* the effective price is 0 the LTV is 0 (no PMI, no high-LTV warning) and the
\* VA down-payment fraction is 0 (the fee percentage is that of the lowest
\* down-payment tier); a term of zero periods gives a payment of 0; and every
\* script run on zero or non-zero income, price and down payment goes on to
\* its end with a row for every scenario (a run in the loop has a next
\* scenario to evaluate, and no run ends in a ZeroDivisionError).  The zero
\* term is stated of the pmt of the main and enhanced scripts; the pmt of the
\* basic script is the subject of C5.
C11_Sentinels ==
    /\ \A r \in Rows :
         /\ gross_monthly_income = 0 => r.dti = <<0, 1>>
         /\ gross_monthly_income # 0
              => r.dti = <<existing_monthly_debts + r.piti, gross_monthly_income>>
         /\ r.price = 0 /\ r.program_hint = "Conventional" => r.pmi_mip = 0
         /\ r.price = 0 /\ variant = "main"
              => /\ W_LTV_CONV \notin {r.warnings[k] : k \in 1..Len(r.warnings)}
                 /\ W_LTV_FHA \notin {r.warnings[k] : k \in 1..Len(r.warnings)}
                 /\ r.program_hint = "VA" => r.fhava_note.fee_pct = C11_ZeroFracTier
    /\ pc = "loop" => /\ i \in 1..Len(ScenariosOf(variant))
                      /\ Len(scenario_data) = i - 1
    /\ pc # "ZeroDivisionError"
    /\ pc = "done" => Len(scenario_data) = Len(ScenariosOf(variant))
    /\ fn_call.fn = "pmt" /\ fn_ret.state # "pending"
         /\ fn_call.variant \in {"main", "enhanced"}
         /\ Periods(fn_call.n_years) = 0
         => fn_ret = [state |-> "returned", value |-> 0]

\* a finished run of the main script with zero income, an effective price of
\* 0 reached by a price reduction, a positive down payment and a VA hint
C11_Witness ==
    /\ variant = "main" /\ pc = "done"
    /\ gross_monthly_income = 0 /\ existing_monthly_debts > 0
    /\ price > 0 /\ down_payment > 0
    /\ scenario_data[1].price = 0
    /\ scenario_data[1].program_hint = "VA"
    /\ scenario_data[1].dti = <<0, 1>>
    /\ scenario_data[2].price > 0

\* C12: the DTI of 0 reported for a gross monthly income of 0 is indeterminate,
\* not qualifying: in a scenario of the main script whose income is 0 none of
\* conv_ok, fha_ok and va_ok is true.
C12_ZeroIncomeIndeterminate ==
    variant = "main" =>
      \A r \in Rows :
        gross_monthly_income = 0 => ~r.conv_ok /\ ~r.fha_ok /\ ~r.va_ok

\* what the main script reports at an income of 0: the DTI test passes, and
\* each flag is the conjunction of its other tests
C12_ZeroIncomeQualifies ==
    variant = "main" =>
      \A r \in Rows :
        gross_monthly_income = 0 =>
          /\ r.conv_ok = (/\ credit_score >= min_credit_conv
                          /\ recent_bk = "No" /\ recent_fc = "No")
          /\ r.fha_ok = (credit_score >= min_credit_fha)
          /\ r.va_ok = (/\ va_eligible = "Yes" /\ credit_score >= min_credit_va
                        /\ occ = "Primary")

\* C13: in every scenario of every script, estimated closing costs =
\* effective price x closing-cost rate + points x base loan, the base loan
\* being max(0, effective price - down payment) before any financed fee, and
\* cash-to-close = down payment + max(0, estimated closing costs - closing
\* credit); so cash-to-close is never below the down payment.
C13_ClosingCosts ==
    \A r \in Rows :
      LET base == Max(0, r.price - r.down)
          est == (r.price * closing_cost_pct + points_pct * base) \div PerUnit
      IN  /\ r.est_closing_costs = est
          /\ r.cash_to_close = r.down + Max(0, est - r.closing_credit)
          /\ r.cash_to_close >= r.down

\* a finished run of the main script with points and a financed fee, in which
\* one scenario has a closing credit above its estimated closing costs and
\* pays its down payment only, and another pays closing costs in full
C13_Witness ==
    /\ variant = "main" /\ pc = "done" /\ points_pct > 0
    /\ scenario_data[1].loan_amount > scenario_data[1].base_loan
    /\ scenario_data[1].base_loan > 0
    /\ scenario_data[1].closing_credit > scenario_data[1].est_closing_costs
    /\ scenario_data[1].cash_to_close = scenario_data[1].down
    /\ scenario_data[2].closing_credit = 0
    /\ scenario_data[2].cash_to_close
         = scenario_data[2].down + scenario_data[2].est_closing_costs

\* the kind of the incentive of a row's scenario: the enhanced script forces
\* a kind per scenario
C14_Kind(r) == IF variant = "enhanced" THEN eff_type_of(r.name) ELSE inc_type

\* the row's scenario applies the incentive
C14_Uses(r) == scen_use_inc_w[r.name] = "Yes"

\* rows of one run that differ in the incentive only
C14_SameLoanInputs(r1, r2) == r1.note_rate = r2.note_rate /\ r1.down = r2.down

\* t1 : t2 = p1 : p2 up to the rounding of t1 and t2 to whole dollars
C14_Proportional(t1, p1, t2, p2) ==
    /\ t1 * p2 - t2 * p1 < Max(p1, p2)
    /\ t2 * p1 - t1 * p2 < Max(p1, p2)

\* C14: the effective price is price - incentive amount iff the kind is
\* PriceReduction and the scenario uses the incentive, else the price; the
\* closing credit is the incentive amount iff the kind is ClosingCredit and
\* the scenario uses it, else 0.  Against a scenario of the same run with the
\* same rate and down payment and no incentive, a ClosingCredit scenario has
\* the same effective price, base loan, loan amount, P&I, tax, insurance, MI,
\* PITI and DTI, and a PriceReduction scenario has loan amount, tax and
\* insurance no greater, tax and insurance in proportion to the price.
C14_IncentiveChannels ==
    /\ \A r \in Rows :
         /\ r.price = IF C14_Kind(r) = "PriceReduction" /\ C14_Uses(r)
                      THEN price - inc_amount ELSE price
         /\ r.closing_credit = IF C14_Kind(r) = "ClosingCredit" /\ C14_Uses(r)
                               THEN inc_amount ELSE 0
    /\ \A r1 \in Rows, r2 \in Rows :
         C14_SameLoanInputs(r1, r2) /\ C14_Uses(r1) /\ ~C14_Uses(r2) =>
           /\ C14_Kind(r1) = "ClosingCredit" =>
                /\ r1.price = r2.price
                /\ Max(0, r1.price - r1.down) = Max(0, r2.price - r2.down)
                /\ r1.loan_amount = r2.loan_amount
                /\ r1.monthly_pi = r2.monthly_pi
                /\ r1.monthly_tax = r2.monthly_tax
                /\ r1.monthly_ins = r2.monthly_ins
                /\ r1.pmi_mip = r2.pmi_mip
                /\ r1.piti = r2.piti
                /\ r1.dti = r2.dti
           /\ C14_Kind(r1) = "PriceReduction" =>
                /\ r1.loan_amount <= r2.loan_amount
                /\ r1.monthly_tax <= r2.monthly_tax
                /\ r1.monthly_ins <= r2.monthly_ins
                /\ C14_Proportional(r1.monthly_tax, r1.price,
                                    r2.monthly_tax, r2.price)
                /\ C14_Proportional(r1.monthly_ins, r1.price,
                                    r2.monthly_ins, r2.price)

\* a finished run of the enhanced script whose first scenario (price
\* reduction) has a smaller loan, tax and insurance than its third (no
\* incentive), and whose second (closing credit) has the third's figures and
\* the credit
C14_Witness ==
    /\ variant = "enhanced" /\ pc = "done" /\ inc_amount > 0
    /\ scen_use_inc_w[1] = "Yes" /\ scen_use_inc_w[2] = "Yes"
    /\ scen_use_inc_w[3] = "No"
    /\ C14_SameLoanInputs(scenario_data[1], scenario_data[3])
    /\ C14_SameLoanInputs(scenario_data[2], scenario_data[3])
    /\ scenario_data[1].price = price - inc_amount
    /\ scenario_data[1].loan_amount < scenario_data[3].loan_amount
    /\ scenario_data[1].monthly_tax < scenario_data[3].monthly_tax
    /\ scenario_data[1].monthly_ins < scenario_data[3].monthly_ins
    /\ scenario_data[1].closing_credit = 0
    /\ scenario_data[2].closing_credit = inc_amount
    /\ scenario_data[2].piti = scenario_data[3].piti
    /\ scenario_data[3].closing_credit = 0

\* the figures of a row that C15 names are non-negative
C15_RowNonNegative(r) ==
    /\ r.price >= 0
    /\ r.loan_amount >= 0
    /\ r.monthly_tax >= 0
    /\ r.monthly_ins >= 0
    /\ r.est_closing_costs >= 0

\* C15: for a price, down payment and incentive amount that are all >= 0,
\* every scenario of the main script has an effective price >= 0 and a base
\* loan equal to max(0, effective price - down payment), and its monthly tax,
\* monthly insurance, estimated closing costs and loan amount are never
\* negative.
C15_NonNegative ==
    variant = "main" /\ price >= 0 /\ down_payment >= 0 /\ inc_amount >= 0 =>
      \A r \in Rows :
        /\ r.base_loan = Max(0, r.price - r.down) /\ r.base_loan >= 0
        /\ C15_RowNonNegative(r)

\* in all three scripts the figures are non-negative when the incentive
\* amount does not exceed the price, and the loan amount always is
C15_WithinPrice ==
    \A r \in Rows :
      /\ r.loan_amount >= 0
      /\ inc_amount <= price => C15_RowNonNegative(r)

\* the tests of the three flags on a row's DTI, none of which reads the hint
C16_ConvTest(r) ==
    /\ credit_score >= min_credit_conv /\ ~RatGT(r.dti, max_dti_conv, 100)
    /\ recent_bk = "No" /\ recent_fc = "No"

C16_FhaTest(r) ==
    credit_score >= min_credit_fha /\ ~RatGT(r.dti, max_dti_fha, 100)

C16_VaTest(r) ==
    /\ va_eligible = "Yes" /\ credit_score >= min_credit_va
    /\ ~RatGT(r.dti, max_dti_va, 100) /\ occ = "Primary"

\* C16 as claimed: the hint and the flags can disagree in that a scenario is
\* hinted FHA while its conv_ok flag is true; stated of the runs most
\* favourable to it: a finished run of the main script hinted FHA whose
\* borrower passes the conventional DTI and derogatory-history tests has a
\* scenario hinted FHA with conv_ok true.
C16_FhaHintConvOk ==
    /\ variant = "main" /\ pc = "done"
    /\ recent_bk = "No" /\ recent_fc = "No"
    /\ \A r \in Rows :
         r.program_hint = "FHA" /\ ~RatGT(r.dti, max_dti_conv, 100)
    => \E r \in Rows : r.program_hint = "FHA" /\ r.conv_ok

\* C16 as amended: every scenario of the main script carries all three flags,
\* each the outcome of its own tests whichever program the hint names, so the
\* hint and the flags can disagree; but a scenario hinted FHA never has
\* conv_ok true, because the hint and conv_ok test the credit score against
\* the same conventional minimum.
C16_Decoupled ==
    variant = "main" =>
      \A r \in Rows :
        /\ r.conv_ok = C16_ConvTest(r)
        /\ r.fha_ok = C16_FhaTest(r)
        /\ r.va_ok = C16_VaTest(r)
        /\ r.program_hint = "FHA" => ~r.conv_ok

\* a finished run of the main script in which hint and flags disagree: a
\* scenario hinted Conventional fails conv_ok and passes fha_ok
C16_Witness ==
    /\ variant = "main" /\ pc = "done"
    /\ \E r \in Rows :
         /\ r.program_hint = "Conventional"
         /\ ~r.conv_ok /\ r.fha_ok /\ ~r.va_ok

\* a finished run of the main script hinted FHA whose borrower passes every
\* conventional test but the credit minimum
C16_FhaWitness ==
    /\ variant = "main" /\ pc = "done"
    /\ recent_bk = "No" /\ recent_fc = "No"
    /\ \E r \in Rows :
         /\ r.program_hint = "FHA" /\ ~RatGT(r.dti, max_dti_conv, 100)
         /\ r.fha_ok /\ ~r.conv_ok

\* the annual rates pmt was invoked with for a row: its note rate and the
\* stepped rates of its buydown schedule
C17_PmtRates(r) ==
    {r.note_rate}
    \cup (IF ScheduleOf(r) = <<>> THEN {}
          ELSE {EntriesOf(ScheduleOf(r)[1])[y][2] :
                  y \in 1..Len(EntriesOf(ScheduleOf(r)[1]))})

\* C17: a negative note rate is rejected before the pipeline runs: the main
\* script gives no scenario result when a scenario's note rate is negative,
\* and pmt is never invoked with a negative annual rate, neither a note rate
\* nor a stepped buydown rate derived from it.
C17_NegativeRateRejected ==
    variant = "main" =>
      /\ (\E k \in 1..Len(default_scenarios) :
            scen_rate_of(default_scenarios, k) < 0) /\ pc # "setup"
           => scenario_data = <<>>
      /\ \A r \in Rows : \A rate \in C17_PmtRates(r) : rate >= 0

\* C17 of the note rates only
C17_NoteRateRejected ==
    variant = "main" => \A r \in Rows : r.note_rate >= 0

\* C17 of the stepped rates of runs whose note rates are all >= 0
C17_SteppedRateRejected ==
    variant = "main" /\ (\A r \in Rows : r.note_rate >= 0) =>
      \A r \in Rows : \A rate \in C17_PmtRates(r) : rate >= 0

\* the balance before row k of the schedule
C18_BalanceBefore(k) == IF k = 1 THEN fn_call.loanAmount ELSE fn_log[k - 1].balance

RECURSIVE C18_PrincipalSum(_)
C18_PrincipalSum(k) == IF k = 0 THEN 0 ELSE C18_PrincipalSum(k - 1) + fn_log[k].principal

\* C18: buildSchedule emits rows month 1, 2, ... in which the running balance
\* never increases and never goes below 0, the principal portion being at
\* most the remaining balance; it stops at the first month the balance is
\* within epsilon of 0, after at most term x 12 rows; the final balance is
\* within epsilon of 0 and the principal portions sum to the original loan
\* amount within epsilon.
C18_Amortization ==
    fn_call.fn = "buildSchedule" =>
      /\ \A k \in 1..Len(fn_log) :
           /\ fn_log[k].month = k
           /\ fn_log[k].balance <= C18_BalanceBefore(k)
           /\ fn_log[k].balance >= 0
           /\ fn_log[k].principal <= C18_BalanceBefore(k)
           /\ fn_log[k].interest >= 0
           /\ k < Len(fn_log) => fn_log[k].balance > Epsilon
      /\ Len(fn_log) <= fn_call.termYears * 12
      /\ fn_ret.state = "running" => Len(fn_log) < fn_call.termYears * 12
      /\ fn_ret.state = "returned" =>
           /\ Len(fn_log) >= 1
           /\ fn_log[Len(fn_log)].balance <= Epsilon
           /\ fn_call.loanAmount - C18_PrincipalSum(Len(fn_log)) <= Epsilon
           /\ C18_PrincipalSum(Len(fn_log)) <= fn_call.loanAmount

\* a finished schedule at a positive rate with extra principal that is paid
\* off before the nominal term, its last principal portion capped at the
\* balance that remained
C18_Witness ==
    /\ fn_call.fn = "buildSchedule" /\ fn_ret.state = "returned"
    /\ fn_call.annualRatePct > 0 /\ fn_call.extraPrincipalMonthly > 0
    /\ fn_call.loanAmount > 0
    /\ Len(fn_log) > 1 /\ Len(fn_log) < fn_call.termYears * 12
    /\ fn_log[Len(fn_log)].balance = 0
    /\ fn_log[Len(fn_log)].principal < fn_log[1].principal
    /\ fn_log[1].interest > 0

\* a finished schedule without extra principal that runs the whole term
C18_FullTerm ==
    /\ fn_call.fn = "buildSchedule" /\ fn_ret.state = "returned"
    /\ fn_call.annualRatePct > 0 /\ fn_call.extraPrincipalMonthly = 0
    /\ Len(fn_log) = fn_call.termYears * 12

\* the warnings of a scenario result, as a set
\* (only the main script's results carry warnings)
C19_Warnings(r) ==
    IF "warnings" \in DOMAIN r THEN {r.warnings[k] : k \in 1..Len(r.warnings)} ELSE {}

\* C19: the warning "VA selected but borrower not flagged as VA-eligible." is
\* in the warnings of no scenario result: a result is hinted VA only when the
\* VA-eligible flag is "Yes", so the warning's condition never holds.
C19_VaWarningAbsent ==
    \A r \in Rows :
        /\ variant = "main" => "warnings" \in DOMAIN r
        /\ W_VA \notin C19_Warnings(r)
        /\ r.program_hint = "VA" => va_eligible = "Yes"
        /\ va_eligible = "Yes" => r.program_hint = "VA"

\* a finished run of the main script whose results are hinted VA and carry
\* another warning
C19_Witness ==
    /\ variant = "main" /\ pc = "done" /\ Rows # {}
    /\ va_eligible = "Yes"
    /\ \A r \in Rows : r.program_hint = "VA" /\ W_OCC \in C19_Warnings(r)

\* a finished run of the main script for a borrower not flagged VA-eligible
C19_UnflaggedWitness ==
    /\ variant = "main" /\ pc = "done" /\ Rows # {}
    /\ va_eligible = "No"
    /\ \A r \in Rows : r.program_hint = "FHA" /\ W_OCC \in C19_Warnings(r)

====
